---- MODULE Spec2Model ----
(***************************************************************************)
(* camcast: WebRTC -> RTSP gateway.                                        *)
(*                                                                         *)
(* RTSPServer (server/rtsp.go) learns SPS/PPS from the H.264 RTP stream,   *)
(* publishes a gortsplib ServerStream once both are known and forwards RTP *)
(* packets to it.  WebRTCReceiver (server/signaling.go) owns the peer      *)
(* connection and runs one read loop per remote track; main.go wires the   *)
(* two together.                                                           *)
(*                                                                         *)
(* rs.mu is modelled explicitly: a step that takes the lock also runs the  *)
(* critical section, the following step of the same task releases it.      *)
(* gortsplib's ServerStream is modelled by what the gateway can observe:   *)
(* Initialize may fail, Close marks the stream closed, and WritePacketRTP  *)
(* on a closed stream returns ErrServerStreamClosed without delivering.    *)
(***************************************************************************)
EXTENDS Integers, Sequences, FiniteSets, TLC

\* ------------------------------------------------------------------ bounds
MaxStreams == 2
MaxPackets == 3
MaxInits == 2
MaxLen == 4
MaxUnits == 3
MaxOffers == 2
MaxConns == 2
MaxMsgs == 2
MaxCands == 2

\* Goroutines that call into the gateway.  Task 1 is the side of the track
\* handler and a video read loop (InitStream, WriteVideoPacket); task 2 is
\* another read loop, a downstream client or the owner closing the gateway
\* (WriteVideoPacket, WriteAudioPacket, the requests, Close).  InitStream is
\* only called under main's trackMu, so never concurrently with itself.
Tasks == {1, 2}
Handlers == {1}
Clients == {2}
StreamIds == 1..MaxStreams

\* --------------------------------------------------------- program constants
NALUTypeSPS == 7
NALUTypePPS == 8
NALUTypeSTAPA == 24
DefaultAudioPT == 111
VideoPT == 96

\* Payload types handed to the n-th InitStream call (uint8 values): the
\* registered pair first, another pair on every later call.
InitArgs(n) == <<(VideoPT + 6 * n) % 256, (DefaultAudioPT + 254 * n) % 256>>

\* ---------------------------------------------------------------- payloads
\* RTP payloads are byte sequences; the NAL unit type is payload[0] & 0x1F.
SPS_A == <<103, 1>>
PPS_A == <<104, 1>>
FRAME == <<101, 9>>
\* STAP-A header 0x78, then (2-byte length, unit)*
STAP_OK == <<120, 0, 2, 103, 3, 0, 1, 101, 0, 2, 104, 4>>
\* second unit declares 9 bytes, 1 remains
STAP_TRUNC == <<120, 0, 2, 103, 5, 0, 9, 104>>
OPUS == <<252>>
\* STAP-A carrying one SPS unit and one PPS unit of one byte each
STAP_PAIR == <<120, 0, 1, 103, 0, 1, 104>>

Payloads == {<<>>, SPS_A, PPS_A, FRAME, STAP_OK, STAP_TRUNC}

VARIABLES
    \* RTSPServer fields
    mu, rreaders, stream, videoMedia, audioMedia, initialized,
    videoPayload, audioPayload, sps, pps, spsReceived, ppsReceived,
    videoPacketCnt,
    \* gortsplib objects reachable from the gateway
    nextStream, streamDesc, streamInit, streamClosed, serverClosed,
    \* the number of InitStream calls made when a stream was created
    streamCycle,
    \* what reached the downstream stream: [stream, media, seq]
    forwarded,
    \* packets that a write call returned on without forwarding
    dropped,
    \* the process took a runtime panic (index out of range)
    panicked,
    \* tasks (goroutines): position and locals
    pc, loc, lastRet, nextSeq, inits,
    \* one extractSPSPPS call taken apart: the payload handed in, the rest
    \* still to be walked by parseSTAPA, the position in the call, the loop
    \* iterations of this call, the calls made on this payload, and the
    \* parameters before the first call and after it
    input, buf, ppc, iters, runs, pre, mid,
    \* WebRTCReceiver: the installed connection, the connections closed, the
    \* connections created, those whose answer was produced, the calls made
    peerConnection, pcClosed, nextPC, negotiated, offers,
    \* the variables captured by main's track handler
    trackMu, videoPayloadType, audioPayloadType, hasVideo, hasAudio,
    \* the packet a read loop holds between ReadRTP and the handler call
    inflight,
    \* the connection whose video track caused the n-th InitStream call
    initBy,
    \* what the goroutine of each track has done so far: the track's arrival,
    \* the InitStream call, the return of the track handler, every packet
    \* read, every packet handed to the RTP handler, the failed read
    tlog,
    \* SignalingServer fields: the bound connection (0 is nil) and whether
    \* the two handlers are registered
    conn, onOffer, onICE,
    \* HandleWebSocket, one call per control connection: position, the
    \* message last read, the answer the offer handler returned
    wspc, wsmsg, answer,
    \* the control connections whose transport is open
    connOpen,
    \* SendICECandidate: position, the candidate in hand, its copy of conn
    spc, scand, sendConn,
    \* messages read and candidates produced so far
    nextMsg, nextCand,
    \* every conn.Write call, every offer-handler call, every
    \* SendICECandidate call
    wlog, olog, ilog

gwVars == <<stream, videoMedia, audioMedia, initialized, videoPayload,
            audioPayload, sps, pps, spsReceived, ppsReceived, videoPacketCnt>>
libVars == <<nextStream, streamDesc, streamInit, streamClosed, serverClosed,
             streamCycle>>
paramVars == <<sps, pps, spsReceived, ppsReceived>>

vars == <<mu, rreaders, stream, videoMedia, audioMedia, initialized,
          videoPayload, audioPayload, sps, pps, spsReceived, ppsReceived,
          videoPacketCnt, nextStream, streamDesc, streamInit, streamClosed,
          serverClosed, forwarded, dropped, panicked, pc, loc, lastRet, nextSeq,
          inits, streamCycle,
          input, buf, ppc, iters, runs, pre, mid,
          peerConnection, pcClosed, nextPC, negotiated, offers, trackMu,
          videoPayloadType, audioPayloadType, hasVideo, hasAudio, inflight,
          initBy, tlog,
          conn, onOffer, onICE, wspc, wsmsg, answer, connOpen, spc, scand,
          sendConn, nextMsg, nextCand, wlog, olog, ilog>>

taskVars == <<pc, loc, lastRet, nextSeq, inits>>
parseVars == <<input, buf, ppc, iters, runs, pre, mid>>
closureVars == <<trackMu, videoPayloadType, audioPayloadType, hasVideo,
                 hasAudio>>
receiverVars == <<peerConnection, pcClosed, nextPC, negotiated, offers>>
bridgeVars == <<receiverVars, closureVars, inflight, initBy, tlog>>
signalVars == <<conn, onOffer, onICE, wspc, wsmsg, answer, connOpen, spc,
                scand, sendConn, nextMsg, nextCand, wlog, olog, ilog>>

\* ---------------------------------------------------------- byte helpers
\* payload[i] of a Go slice (0-based); -1 stands for an index-out-of-range
\* panic.
At(p, i) == IF i >= 0 /\ i < Len(p) THEN p[i + 1] ELSE -1

\* payload[a:b] of a Go slice; the flag tells whether the bounds were legal.
SliceOK(p, a, b) == 0 <= a /\ a <= b /\ b <= Len(p)
Slice(p, a, b) == IF SliceOK(p, a, b) THEN SubSeq(p, a + 1, b) ELSE <<>>

\* b & 0x1F
NALType(b) == b % 32

\* The parameter part of the RTSPServer that extractSPSPPS works on.
Params == [sps |-> sps, pps |-> pps, spsReceived |-> spsReceived,
           ppsReceived |-> ppsReceived, panicked |-> panicked]

\* A parser that takes every SPS it meets.
CaptureSPS_Always(P, data) == [P EXCEPT !.sps = data, !.spsReceived = TRUE]

\* rtsp.go:151-156 / 186-191: the SPS is copied only while none is held.
CaptureSPS(P, data) ==
    IF ~P.spsReceived
    THEN [P EXCEPT !.sps = data, !.spsReceived = TRUE]
    ELSE P

\* A parser that takes every PPS it meets.
CapturePPS_Always(P, data) == [P EXCEPT !.pps = data, !.ppsReceived = TRUE]

\* rtsp.go:158-163 / 193-198
CapturePPS(P, data) ==
    IF ~P.ppsReceived
    THEN [P EXCEPT !.pps = data, !.ppsReceived = TRUE]
    ELSE P

\* A parser that does not compare the declared size with what is left.
BadSize_NoFit(rest, nalSize) == nalSize < 1

\* A parser that lets a zero size through.
BadSize_NoZero(rest, nalSize) == Len(rest) < nalSize

\* rtsp.go:177: the declared size does not fit, or is zero.
BadSize(rest, nalSize) == Len(rest) < nalSize \/ nalSize < 1

\* One pass through the body of parseSTAPA's for loop (rtsp.go:173-201),
\* entered with len(payload) >= 2.  brk tells that the loop was left by the
\* break at line 178.
parseSTAPAIter(P, payload) ==
    LET nalSize == At(payload, 0) * 256 + At(payload, 1)
        rest == Slice(payload, 2, Len(payload))
        hdrOob == \/ At(payload, 0) = -1
                  \/ At(payload, 1) = -1
                  \/ ~SliceOK(payload, 2, Len(payload))
    IN  IF hdrOob
        THEN [P |-> [P EXCEPT !.panicked = TRUE], payload |-> payload,
              brk |-> TRUE]
        ELSE IF BadSize(rest, nalSize)
        THEN [P |-> P, payload |-> rest, brk |-> TRUE]
        ELSE LET nalType == NALType(At(rest, 0))
                 nalData == Slice(rest, 0, nalSize)
                 oob == \/ At(rest, 0) = -1
                        \/ ~SliceOK(rest, 0, nalSize)
                        \/ ~SliceOK(rest, nalSize, Len(rest))
                 Q == IF oob THEN [P EXCEPT !.panicked = TRUE] ELSE P
                 R == CASE oob -> Q
                        [] nalType = NALUTypeSPS -> CaptureSPS(Q, nalData)
                        [] nalType = NALUTypePPS -> CapturePPS(Q, nalData)
                        [] OTHER -> Q
             IN  [P |-> R, payload |-> Slice(rest, nalSize, Len(rest)),
                  brk |-> oob]

\* parseSTAPA (rtsp.go:171-203): the whole loop.  The outcome r of one pass
\* is bound once and handed to the next pass.
RECURSIVE parseSTAPA(_, _)
parseSTAPA(P, payload) ==
    IF Len(payload) >= 2
    THEN CHOOSE v \in {IF r.brk THEN r.P ELSE parseSTAPA(r.P, r.payload) :
                         r \in {parseSTAPAIter(P, payload)}} : TRUE
    ELSE P

\* rtsp.go:164: the packet is a STAP-A.
IsSTAPA(payload) ==
    Len(payload) >= 1 /\ NALType(At(payload, 0)) = NALUTypeSTAPA

\* extractSPSPPS without the STAP-A case (rtsp.go:142-163).
extractSingle(P, payload) ==
    IF Len(payload) < 1
    THEN P
    ELSE LET nalType == NALType(At(payload, 0))
         IN  CASE nalType = NALUTypeSPS -> CaptureSPS(P, payload)
               [] nalType = NALUTypePPS -> CapturePPS(P, payload)
               [] OTHER -> P

\* extractSPSPPS (rtsp.go:141-168)
extractSPSPPS(P, payload) ==
    IF IsSTAPA(payload)
    THEN parseSTAPA(P, Slice(payload, 1, Len(payload)))
    ELSE extractSingle(P, payload)

\* ------------------------------------------------------------- the gateway
NoDesc == [medias |-> <<>>]
NoLoc == [seq |-> 0, src |-> 0, stream |-> 0, media |-> 0,
          initialized |-> FALSE, cont |-> "idle"]
NoRet == [op |-> "none", val |-> "none", stream |-> 0]

\* NewRTSPServer (rtsp.go:35-47): every field at its zero value.
InitParams ==
    /\ sps = <<>>
    /\ pps = <<>>
    /\ spsReceived = FALSE
    /\ ppsReceived = FALSE

InitGateway ==
    /\ mu = 0
    /\ rreaders = {}
    /\ stream = 0
    /\ videoMedia = 0
    /\ audioMedia = 0
    /\ initialized = FALSE
    /\ videoPayload = 0
    /\ audioPayload = 0
    /\ videoPacketCnt = 0
    /\ nextStream = 0
    /\ streamDesc = [i \in StreamIds |-> NoDesc]
    /\ streamInit = {}
    /\ streamClosed = {}
    /\ streamCycle = [i \in StreamIds |-> 0]
    /\ serverClosed = FALSE
    /\ forwarded = {}
    /\ dropped = {}
    /\ panicked = FALSE

InitTasks ==
    /\ pc = [t \in Tasks |-> "idle"]
    /\ loc = [t \in Tasks |-> NoLoc]
    /\ lastRet = NoRet
    /\ nextSeq = 0
    /\ inits = 0

NoParams == [sps |-> <<>>, pps |-> <<>>, spsReceived |-> FALSE,
             ppsReceived |-> FALSE, panicked |-> FALSE]

InitParseIdle ==
    /\ input = <<>>
    /\ buf = <<>>
    /\ ppc = "off"
    /\ iters = 0
    /\ runs = 0
    /\ pre = NoParams
    /\ mid = NoParams

\* sync.RWMutex: Lock needs no holder of either kind, RLock no writer.
CanLock == mu = 0 /\ rreaders = {}
CanRLock == mu = 0

\* A call returns: the task goes on where its caller continues, the locals
\* of the call are gone, the result is handed to the caller.
Return(t, op, val, rs) ==
    /\ pc' = [pc EXCEPT ![t] = loc[t].cont]
    /\ loc' = [loc EXCEPT ![t] = NoLoc]
    /\ lastRet' = [op |-> op, val |-> val, stream |-> rs]

\* The fields InitStream works on, as a record.
Gateway == [stream |-> stream, initialized |-> initialized,
            spsReceived |-> spsReceived, ppsReceived |-> ppsReceived,
            sps |-> sps, pps |-> pps, videoPacketCnt |-> videoPacketCnt,
            videoPayload |-> videoPayload, audioPayload |-> audioPayload,
            closed |-> streamClosed]

\* An InitStream that forgets the old stream without closing it.
InitStreamBody_NoClose(G, v, a) ==
    LET R == IF G.initialized
             THEN [G EXCEPT
                     !.stream = 0,
                     !.initialized = FALSE,
                     !.spsReceived = FALSE,
                     !.ppsReceived = FALSE,
                     !.sps = <<>>,
                     !.pps = <<>>,
                     !.videoPacketCnt = 0]
             ELSE G
    IN  [R EXCEPT !.videoPayload = v, !.audioPayload = a]

\* An InitStream that stores the payload types and resets nothing.
InitStreamBody_NoReset(G, v, a) ==
    [G EXCEPT !.videoPayload = v, !.audioPayload = a]

\* An InitStream that resets whether or not the gateway is Initialized.
InitStreamBody_ResetAlways(G, v, a) ==
    [G EXCEPT
       !.closed = IF G.stream # 0 THEN @ \cup {G.stream} ELSE @,
       !.stream = 0,
       !.initialized = FALSE,
       !.spsReceived = FALSE,
       !.ppsReceived = FALSE,
       !.sps = <<>>,
       !.pps = <<>>,
       !.videoPacketCnt = 0,
       !.videoPayload = v,
       !.audioPayload = a]

\* An InitStream that keeps the captured blobs over a reset.
InitStreamBody_KeepBlobs(G, v, a) ==
    LET R == IF G.initialized
             THEN [G EXCEPT
                     !.closed = IF G.stream # 0 THEN @ \cup {G.stream} ELSE @,
                     !.stream = 0,
                     !.initialized = FALSE,
                     !.spsReceived = FALSE,
                     !.ppsReceived = FALSE,
                     !.videoPacketCnt = 0]
             ELSE G
    IN  [R EXCEPT !.videoPayload = v, !.audioPayload = a]

\* The body of InitStream (rtsp.go:54-70).
InitStreamBody(G, v, a) ==
    LET R == IF G.initialized
             THEN [G EXCEPT
                     !.closed = IF G.stream # 0 THEN @ \cup {G.stream} ELSE @,
                     !.stream = 0,
                     !.initialized = FALSE,
                     !.spsReceived = FALSE,
                     !.ppsReceived = FALSE,
                     !.sps = <<>>,
                     !.pps = <<>>,
                     !.videoPacketCnt = 0]
             ELSE G
    IN  [R EXCEPT !.videoPayload = v, !.audioPayload = a]

\* InitStream, lock taken and body run (rtsp.go:50-70).
InitStream_Lock(t, v, a, cont) ==
    /\ CanLock
    /\ LET R == InitStreamBody(Gateway, v, a)
       IN  /\ stream' = R.stream
           /\ initialized' = R.initialized
           /\ spsReceived' = R.spsReceived
           /\ ppsReceived' = R.ppsReceived
           /\ sps' = R.sps
           /\ pps' = R.pps
           /\ videoPacketCnt' = R.videoPacketCnt
           /\ videoPayload' = R.videoPayload
           /\ audioPayload' = R.audioPayload
           /\ streamClosed' = R.closed
    /\ mu' = t
    /\ pc' = [pc EXCEPT ![t] = "is_unlock"]
    /\ loc' = [loc EXCEPT ![t] = [NoLoc EXCEPT !.cont = cont]]
    /\ UNCHANGED <<rreaders, videoMedia, audioMedia, nextStream, streamDesc,
                   streamInit, serverClosed, streamCycle, forwarded, dropped,
                   panicked>>
    /\ lastRet' = NoRet

\* InitStream returns; the deferred Unlock runs (rtsp.go:52, 73).
InitStream_Unlock(t) ==
    /\ pc[t] = "is_unlock"
    /\ mu' = 0
    /\ Return(t, "InitStream", "nil", 0)
    /\ UNCHANGED <<rreaders, gwVars, libVars, forwarded, dropped, panicked,
                   nextSeq, inits, parseVars, signalVars, bridgeVars>>

\* A description built before the PPS is put in.
BuildDesc_NoPPS(P, v, a) ==
    [medias |-> << [type |-> "video", pt |-> v, sps |-> P.sps, pps |-> <<>>],
                   [type |-> "audio", pt |-> a] >>]

\* The session description built by initializeStream (rtsp.go:78-108).
BuildDesc(P, v, a) ==
    [medias |-> << [type |-> "video", pt |-> v, sps |-> P.sps, pps |-> P.pps],
                   [type |-> "audio", pt |-> a] >>]

\* A gateway that publishes as soon as it holds an SPS.
ReadyToPublish_SPSOnly(P, init) == P.spsReceived /\ ~init

\* A gateway that publishes on every packet once it holds both blobs.
ReadyToPublish_Always(P, init) == P.spsReceived /\ P.ppsReceived

\* A gateway that publishes only while it holds no stream handle, so that a
\* failed publication is not attempted again.
ReadyToPublish_Once(P, init) ==
    P.spsReceived /\ P.ppsReceived /\ ~init /\ stream = 0

\* rtsp.go:218
ReadyToPublish(P, init) == P.spsReceived /\ P.ppsReceived /\ ~init

\* A check that looks at the handles only.
NotPublished_HandlesOnly(init, st, media) == st = 0 \/ media = 0

\* rtsp.go:228, 255
NotPublished(init, st, media) == ~init \/ st = 0 \/ media = 0

\* WriteVideoPacket up to the first Unlock (rtsp.go:207-225).  An empty
\* payload returns at once; otherwise the lock is taken, parameters are
\* extracted while not initialized, the stream is published when both are
\* held (initializeStream, rtsp.go:76-122, whose stream.Initialize may fail),
\* and the handles are copied.
WriteVideoPacket_Enter(t, pkt, cont) ==
    IF Len(pkt.payload) = 0
    THEN /\ pc' = [pc EXCEPT ![t] = cont]
         /\ loc' = [loc EXCEPT ![t] = NoLoc]
         /\ lastRet' = [op |-> "WriteVideoPacket", val |-> "nil",
                        stream |-> 0]
         /\ dropped' = dropped \cup {pkt.seq}
         /\ UNCHANGED <<mu, rreaders, gwVars, libVars, panicked, forwarded>>
    ELSE /\ CanLock
         /\ mu' = t
         /\ UNCHANGED <<rreaders, dropped, videoPayload, audioPayload,
                        videoPacketCnt, streamClosed, serverClosed, forwarded>>
         /\ lastRet' = NoRet
         /\ LET P == IF ~initialized
                     THEN extractSPSPPS(Params, pkt.payload)
                     ELSE Params
            IN  /\ sps' = P.sps
                /\ pps' = P.pps
                /\ spsReceived' = P.spsReceived
                /\ ppsReceived' = P.ppsReceived
                /\ panicked' = P.panicked
                /\ IF ReadyToPublish(P, initialized)
                   THEN /\ nextStream < MaxStreams
                        /\ nextStream' = nextStream + 1
                        /\ stream' = nextStream'
                        /\ videoMedia' = nextStream'
                        /\ audioMedia' = nextStream'
                        /\ streamDesc' = [streamDesc EXCEPT ![nextStream'] =
                               BuildDesc(P, videoPayload, audioPayload)]
                        /\ streamCycle' = [streamCycle EXCEPT
                               ![nextStream'] = inits]
                        /\ \E ok \in BOOLEAN :
                              /\ initialized' = ok
                              /\ streamInit' = IF ok
                                               THEN streamInit \cup {nextStream'}
                                               ELSE streamInit
                   ELSE UNCHANGED <<nextStream, stream, videoMedia,
                                    audioMedia, streamDesc, streamInit,
                                    streamCycle, initialized>>
         /\ pc' = [pc EXCEPT ![t] = "wv_unlock1"]
         /\ loc' = [loc EXCEPT ![t] = [NoLoc EXCEPT
                       !.seq = pkt.seq, !.src = pkt.src, !.cont = cont,
                       !.stream = stream', !.media = videoMedia',
                       !.initialized = initialized']]

\* rtsp.go:226-230: Unlock, then return nil unless published.
WriteVideoPacket_Unlock1(t) ==
    /\ pc[t] = "wv_unlock1"
    /\ mu' = 0
    /\ IF NotPublished(loc[t].initialized, loc[t].stream, loc[t].media)
       THEN /\ Return(t, "WriteVideoPacket", "nil", 0)
            /\ dropped' = dropped \cup {loc[t].seq}
       ELSE /\ pc' = [pc EXCEPT ![t] = "wv_lock2"]
            /\ UNCHANGED <<loc, dropped>>
            /\ lastRet' = NoRet
    /\ UNCHANGED <<rreaders, gwVars, libVars, forwarded, panicked, nextSeq,
                   inits, parseVars, signalVars, bridgeVars>>

\* rtsp.go:233-235
WriteVideoPacket_Count(t) ==
    /\ pc[t] = "wv_lock2"
    /\ CanLock
    /\ mu' = t
    /\ videoPacketCnt' = videoPacketCnt + 1
    /\ pc' = [pc EXCEPT ![t] = "wv_unlock2"]
    /\ UNCHANGED <<rreaders, stream, videoMedia, audioMedia, initialized,
                   videoPayload, audioPayload, paramVars, libVars, forwarded,
                   dropped, panicked, loc, nextSeq, inits, parseVars, signalVars, bridgeVars>>
    /\ lastRet' = NoRet

\* A writer that keeps the lock over the downstream write.
Unlocked_Held(t) == t

\* rs.mu.Unlock() (rtsp.go:236): nobody holds the lock.
Unlocked(t) == 0

\* rtsp.go:236
WriteVideoPacket_Unlock2(t) ==
    /\ pc[t] = "wv_unlock2"
    /\ mu' = Unlocked(t)
    /\ pc' = [pc EXCEPT ![t] = "wv_write"]
    /\ UNCHANGED <<rreaders, gwVars, libVars, forwarded, dropped, panicked,
                   loc, nextSeq, inits, parseVars, signalVars, bridgeVars>>
    /\ lastRet' = NoRet

\* stream.WritePacketRTP(media, packet) (rtsp.go:244, 259): a closed stream
\* refuses the packet with an error, an open one takes it.
WritePacketRTP(t, op, kind) ==
    IF loc[t].stream \in streamClosed
    THEN /\ Return(t, op, "err", 0)
         /\ UNCHANGED forwarded
    ELSE /\ Return(t, op, "nil", 0)
         /\ forwarded' = forwarded \cup
               {[stream |-> loc[t].stream, kind |-> kind,
                 media |-> loc[t].media, seq |-> loc[t].seq,
                 src |-> loc[t].src]}

\* rtsp.go:244
WriteVideoPacket_Write(t) ==
    /\ pc[t] = "wv_write"
    /\ WritePacketRTP(t, "WriteVideoPacket", "video")
    /\ UNCHANGED <<mu, rreaders, gwVars, libVars, dropped, panicked, nextSeq,
                   inits, parseVars, signalVars, bridgeVars>>

\* WriteAudioPacket, the handles copied under the read lock
\* (rtsp.go:249-252).
WriteAudioPacket_RLock(t, pkt, cont) ==
    /\ CanRLock
    /\ rreaders' = rreaders \cup {t}
    /\ loc' = [loc EXCEPT ![t] = [NoLoc EXCEPT
                  !.seq = pkt.seq, !.src = pkt.src, !.cont = cont,
                  !.stream = stream, !.media = audioMedia,
                  !.initialized = initialized]]
    /\ pc' = [pc EXCEPT ![t] = "wa_runlock"]
    /\ UNCHANGED <<mu, gwVars, libVars, forwarded, dropped, panicked>>
    /\ lastRet' = NoRet

\* rtsp.go:253-257
WriteAudioPacket_RUnlock(t) ==
    /\ pc[t] = "wa_runlock"
    /\ rreaders' = rreaders \ {t}
    /\ IF NotPublished(loc[t].initialized, loc[t].stream, loc[t].media)
       THEN /\ Return(t, "WriteAudioPacket", "nil", 0)
            /\ dropped' = dropped \cup {loc[t].seq}
       ELSE /\ pc' = [pc EXCEPT ![t] = "wa_write"]
            /\ UNCHANGED <<loc, dropped>>
            /\ lastRet' = NoRet
    /\ UNCHANGED <<mu, gwVars, libVars, forwarded, panicked, nextSeq, inits,
                   parseVars, signalVars, bridgeVars>>

\* rtsp.go:259
WriteAudioPacket_Write(t) ==
    /\ pc[t] = "wa_write"
    /\ WritePacketRTP(t, "WriteAudioPacket", "audio")
    /\ UNCHANGED <<mu, rreaders, gwVars, libVars, dropped, panicked, nextSeq,
                   inits, parseVars, signalVars, bridgeVars>>

\* A responder that looks at the handle only.
Respond_HandleOnly(init, st) ==
    IF st = 0
    THEN [status |-> "404", stream |-> 0]
    ELSE [status |-> "200", stream |-> st]

\* rtsp.go:291, 319: the answer of describe and setup from the copied flag
\* and handle.
Respond(init, st) ==
    IF ~init \/ st = 0
    THEN [status |-> "404", stream |-> 0]
    ELSE [status |-> "200", stream |-> st]

\* OnDescribe / OnSetup, the flag and handle copied under the read lock
\* (rtsp.go:286-288, 314-316).
OnDescribe_RLock(t, m) ==
    /\ CanRLock
    /\ rreaders' = rreaders \cup {t}
    /\ loc' = [loc EXCEPT ![t] = [NoLoc EXCEPT
                  !.stream = stream, !.initialized = initialized]]
    /\ pc' = [pc EXCEPT ![t] = IF m = "describe" THEN "od_runlock"
                                                 ELSE "os_runlock"]
    /\ UNCHANGED <<mu, gwVars, libVars, forwarded, dropped, panicked>>
    /\ lastRet' = NoRet

\* rtsp.go:289-300, 317-327
OnDescribe_RUnlock(t) ==
    /\ pc[t] \in {"od_runlock", "os_runlock"}
    /\ rreaders' = rreaders \ {t}
    /\ LET r == Respond(loc[t].initialized, loc[t].stream)
       IN  Return(t, IF pc[t] = "od_runlock" THEN "describe" ELSE "setup",
                  r.status, r.stream)
    /\ UNCHANGED <<mu, gwVars, libVars, forwarded, dropped, panicked, nextSeq,
                   inits, parseVars, signalVars, bridgeVars>>

\* OnPlay / OnRecord / OnPause (rtsp.go:331-350): StatusOK, no state read.
OnPlay(t, m) ==
    /\ lastRet' = [op |-> m, val |-> "200", stream |-> 0]
    /\ UNCHANGED <<mu, rreaders, gwVars, libVars, forwarded, dropped,
                   panicked, pc, loc>>

\* A Close that leaves the stream open.
CloseStream_Never(st, closed) == closed

\* rtsp.go:133-135: if rs.stream != nil { rs.stream.Close() }
CloseStream(st, closed) == IF st # 0 THEN closed \cup {st} ELSE closed

\* Close, the stream closed under the lock (rtsp.go:132-135).
Close_Lock(t) ==
    /\ CanLock
    /\ mu' = t
    /\ streamClosed' = CloseStream(stream, streamClosed)
    /\ pc' = [pc EXCEPT ![t] = "cl_unlock"]
    /\ loc' = [loc EXCEPT ![t] = NoLoc]
    /\ UNCHANGED <<rreaders, gwVars, nextStream, streamDesc, streamInit,
                   serverClosed, streamCycle, forwarded, dropped, panicked>>
    /\ lastRet' = NoRet

\* rs.mu.Unlock(); rs.server.Close() (rtsp.go:136-137)
Close_Unlock(t) ==
    /\ pc[t] = "cl_unlock"
    /\ mu' = 0
    /\ serverClosed' = TRUE
    /\ Return(t, "Close", "nil", 0)
    /\ UNCHANGED <<rreaders, gwVars, nextStream, streamDesc, streamInit,
                   streamClosed, streamCycle, forwarded, dropped, panicked,
                   nextSeq, inits, parseVars, signalVars, bridgeVars>>

\* ------------------------------------------------------- the receiver
\* Goroutines of the composed program: the signaling read loop that calls
\* HandleOffer, and for every peer connection the goroutine pion starts for
\* its video track and the one for its audio track.
Sig == 0
PeerIds == 1..MaxOffers
VideoTracks == PeerIds
AudioTracks == {MaxOffers + n : n \in PeerIds}
BridgeTasks == {Sig} \cup VideoTracks \cup AudioTracks
\* The read loops of two control connections, each of which may call
\* HandleOffer.
OfferTasks == {Sig, 2 * MaxOffers + 1}
PeerOf(t) == IF t \in VideoTracks THEN t ELSE t - MaxOffers
OpusPT == 111
\* The payload type of an audio track is the one its connection negotiated:
\* the registered one or the one the remote end offered.
AudioPTs == {OpusPT, 109}
\* An entry of tlog.
Ev(ev, x, y) == [ev |-> ev, x |-> x, y |-> y]
Log(t, e) == tlog' = [tlog EXCEPT ![t] = Append(@, e)]
NoPacket == [seq |-> 0, payload |-> <<>>]
TrackPayloads == {FRAME, STAP_PAIR}

\* NewWebRTCReceiver (signaling.go:178-180) and the variables declared for
\* the track handler (main.go:61-67).
InitReceiver ==
    /\ peerConnection = 0
    /\ pcClosed = {}
    /\ nextPC = 0
    /\ negotiated = {}
    /\ offers = 0
    /\ trackMu = 0
    /\ videoPayloadType = 0
    /\ audioPayloadType = 0
    /\ hasVideo = FALSE
    /\ hasAudio = FALSE
    /\ inflight = [t \in BridgeTasks |-> NoPacket]
    /\ initBy = <<>>
    /\ tlog = [t \in BridgeTasks |-> <<>>]

\* ------------------------------------------------------- signaling server
\* SignalingServer (signaling.go:20-142).  A control connection is a
\* number; 0 stands for the nil connection.
ConnIds == 1..MaxConns
MsgIds == 1..MaxMsgs
CandIds == 1..MaxCands
\* What conn.Read can hand over: data that does not parse, or a message of
\* one of the two known types or of another type.
MsgTypes == {"garbage", "offer", "candidate", "other"}
Answers == {"answer-a", "answer-b"}
NoMsg == [id |-> 0, type |-> "none"]
NoOffer == [conn |-> 0, res |-> "none", sdp |-> ""]
NoSend == [state |-> "none", conn |-> 0, ret |-> "none"]

\* NewSignalingServer (signaling.go:29-31) leaves every field at its zero
\* value; main registers both handlers (main.go:113-114) before it starts
\* the HTTP server that calls HandleWebSocket (main.go:121, 131-136).
InitSignaling ==
    /\ conn = 0
    /\ onOffer = TRUE
    /\ onICE = TRUE
    /\ wspc = [c \in ConnIds |-> "new"]
    /\ wsmsg = [c \in ConnIds |-> NoMsg]
    /\ answer = [c \in ConnIds |-> ""]
    /\ connOpen = {}
    /\ spc = "idle"
    /\ scand = 0
    /\ sendConn = 0
    /\ nextMsg = 0
    /\ nextCand = 0
    /\ wlog = <<>>
    /\ olog = [m \in MsgIds |-> NoOffer]
    /\ ilog = [k \in CandIds |-> NoSend]

\* Everything outside the signaling server.
SignalFrame ==
    UNCHANGED <<mu, rreaders, gwVars, libVars, forwarded, dropped, panicked,
                taskVars, parseVars, bridgeVars>>

\* conn.Write (signaling.go:66, 125): the message goes out when the
\* transport is open, otherwise Write returns an error.  re is the message
\* the write replies to (0 for none).
Write(c, type, sdp, cand, re) ==
    wlog' = Append(wlog, [conn |-> c, type |-> type, sdp |-> sdp,
                          cand |-> cand, re |-> re, ok |-> c \in connOpen])

\* signaling.go:71-77: websocket.Accept; on failure the call returns.
WS_Accept(c) ==
    /\ wspc[c] = "new"
    /\ \E ok \in BOOLEAN :
          /\ wspc' = [wspc EXCEPT ![c] = IF ok THEN "bind" ELSE "done"]
          /\ connOpen' = IF ok THEN connOpen \cup {c} ELSE connOpen
    /\ UNCHANGED <<conn, onOffer, onICE, wsmsg, answer, spc, scand, sendConn,
                   nextMsg, nextCand, wlog, olog, ilog>>
    /\ SignalFrame

\* signaling.go:79-81: s.conn = conn under the lock.
WS_Bind(c) ==
    /\ wspc[c] = "bind"
    /\ conn' = c
    /\ wspc' = [wspc EXCEPT ![c] = "read"]
    /\ UNCHANGED <<onOffer, onICE, wsmsg, answer, connOpen, spc, scand,
                   sendConn, nextMsg, nextCand, wlog, olog, ilog>>
    /\ SignalFrame

\* The remote end closes the connection, or the transport breaks.
PeerClose(c) ==
    /\ c \in connOpen
    /\ wspc[c] \in {"bind", "read", "offer", "reply", "cand"}
    /\ connOpen' = connOpen \ {c}
    /\ UNCHANGED <<conn, onOffer, onICE, wspc, wsmsg, answer, spc, scand,
                   sendConn, nextMsg, nextCand, wlog, olog, ilog>>
    /\ SignalFrame

\* Where the loop goes with a message (signaling.go:101-113, 130-135, 140):
\* data that does not parse, a message of another type and a message whose
\* handler is not registered lead back to Read.
Dispatch(ty) ==
    CASE ty = "offer" /\ onOffer -> "offer"
      [] ty = "candidate" /\ onICE -> "cand"
      [] OTHER -> "read"

\* signaling.go:93-113: conn.Read.  On a closed transport it fails and the
\* function returns (into the deferred function); otherwise it hands over
\* the next message, which is parsed and dispatched.
WS_Read(c) ==
    /\ wspc[c] = "read"
    /\ IF c \in connOpen
       THEN /\ nextMsg < MaxMsgs
            /\ nextMsg' = nextMsg + 1
            /\ \E ty \in MsgTypes :
                  /\ wsmsg' = [wsmsg EXCEPT ![c] =
                                   [id |-> nextMsg', type |-> ty]]
                  /\ wspc' = [wspc EXCEPT ![c] = Dispatch(ty)]
       ELSE /\ wsmsg' = [wsmsg EXCEPT ![c] = NoMsg]
            /\ wspc' = [wspc EXCEPT ![c] = "defer"]
            /\ UNCHANGED nextMsg
    /\ UNCHANGED <<conn, onOffer, onICE, answer, connOpen, spc, scand,
                   sendConn, nextCand, wlog, olog, ilog>>
    /\ SignalFrame

\* A loop that answers a failed offer as well.
AfterOffer_Reply(ok) == "reply"

\* signaling.go:115-118: on an error of the handler, log and continue.
AfterOffer(ok) == IF ok THEN "reply" ELSE "read"

\* signaling.go:114: the call of the offer handler, which returns an answer
\* or an error.
WS_Offer(c) ==
    /\ wspc[c] = "offer"
    /\ \E ok \in BOOLEAN, a \in Answers :
          /\ olog' = [olog EXCEPT ![wsmsg[c].id] =
                         [conn |-> c, res |-> IF ok THEN "ok" ELSE "fail",
                          sdp |-> IF ok THEN a ELSE ""]]
          /\ answer' = [answer EXCEPT ![c] = IF ok THEN a ELSE ""]
          /\ wspc' = [wspc EXCEPT ![c] = AfterOffer(ok)]
    /\ UNCHANGED <<conn, onOffer, onICE, wsmsg, connOpen, spc, scand,
                   sendConn, nextMsg, nextCand, wlog, ilog>>
    /\ SignalFrame

\* signaling.go:120-127: the answer is written; an error of Write is logged.
WS_Reply(c) ==
    /\ wspc[c] = "reply"
    /\ Write(c, "answer", answer[c], 0, wsmsg[c].id)
    /\ wspc' = [wspc EXCEPT ![c] = "read"]
    /\ UNCHANGED <<conn, onOffer, onICE, wsmsg, answer, connOpen, spc, scand,
                   sendConn, nextMsg, nextCand, olog, ilog>>
    /\ SignalFrame

\* signaling.go:136-138: the call of the candidate handler; its error is
\* logged.
WS_Candidate(c) ==
    /\ wspc[c] = "cand"
    /\ wspc' = [wspc EXCEPT ![c] = "read"]
    /\ UNCHANGED <<conn, onOffer, onICE, wsmsg, answer, connOpen, spc, scand,
                   sendConn, nextMsg, nextCand, wlog, olog, ilog>>
    /\ SignalFrame

\* A deferred function that clears the field only when it still holds the
\* connection of this call.
Cleared_IfOwn(c) == IF conn = c THEN 0 ELSE conn

\* signaling.go:84-86: s.conn = nil under the lock.
Cleared(c) == 0

WS_DeferClear(c) ==
    /\ wspc[c] = "defer"
    /\ conn' = Cleared(c)
    /\ wspc' = [wspc EXCEPT ![c] = "close"]
    /\ UNCHANGED <<onOffer, onICE, wsmsg, answer, connOpen, spc, scand,
                   sendConn, nextMsg, nextCand, wlog, olog, ilog>>
    /\ SignalFrame

\* signaling.go:87: conn.Close.
WS_DeferClose(c) ==
    /\ wspc[c] = "close"
    /\ connOpen' = connOpen \ {c}
    /\ wspc' = [wspc EXCEPT ![c] = "done"]
    /\ UNCHANGED <<conn, onOffer, onICE, wsmsg, answer, spc, scand, sendConn,
                   nextMsg, nextCand, wlog, olog, ilog>>
    /\ SignalFrame

\* signaling.go:49-55: the copy of s.conn under the read lock; with no
\* connection bound the call returns nil.
Send_Copy ==
    /\ spc = "idle"
    /\ nextCand < MaxCands
    /\ nextCand' = nextCand + 1
    /\ sendConn' = conn
    /\ IF conn = 0
       THEN /\ ilog' = [ilog EXCEPT ![nextCand'] =
                           [state |-> "done", conn |-> 0, ret |-> "nil"]]
            /\ UNCHANGED <<spc, scand>>
       ELSE /\ ilog' = [ilog EXCEPT ![nextCand'] =
                           [state |-> "copied", conn |-> conn, ret |-> "none"]]
            /\ spc' = "write"
            /\ scand' = nextCand'
    /\ UNCHANGED <<conn, onOffer, onICE, wspc, wsmsg, answer, connOpen,
                   nextMsg, wlog, olog>>
    /\ SignalFrame

\* A sender that reads the field again when it writes.
Target_Bound == conn

\* signaling.go:66: the write goes to the copy taken at line 50.
Target == sendConn

\* signaling.go:57-66: the candidate message is written to the copied
\* connection and the result of Write is returned.
Send_Write ==
    /\ spc = "write"
    /\ Write(Target, "candidate", "", scand, 0)
    /\ ilog' = [ilog EXCEPT ![scand] =
                   [@ EXCEPT !.state = "done",
                             !.ret = IF Target \in connOpen
                                     THEN "nil" ELSE "error"]]
    /\ spc' = "idle"
    /\ UNCHANGED <<conn, onOffer, onICE, wspc, wsmsg, answer, connOpen,
                   scand, sendConn, nextMsg, nextCand, olog>>
    /\ SignalFrame

\* The steps of one HandleWebSocket call that wait for nothing.
WS_Internal(c) ==
    \/ WS_Bind(c)
    \/ WS_Offer(c)
    \/ WS_Reply(c)
    \/ WS_Candidate(c)
    \/ WS_DeferClear(c)
    \/ WS_DeferClose(c)

NextSignal ==
    \/ \E c \in ConnIds :
          \/ WS_Accept(c)
          \/ PeerClose(c)
          \/ WS_Read(c)
          \/ WS_Internal(c)
    \/ Send_Copy
    \/ Send_Write

InitSignal ==
    InitParams /\ InitGateway /\ InitTasks /\ InitParseIdle /\ InitReceiver
    /\ InitSignaling

\* Every HandleWebSocket call runs on a goroutine of its own (net/http), so
\* a step that waits for nothing is eventually taken.
SpecSignal ==
    /\ InitSignal
    /\ [][NextSignal]_vars
    /\ \A c \in ConnIds : WF_vars(WS_Internal(c))

\* ------------------------------------------------ callers of the gateway
\* Any caller of the exported methods: each idle task picks a call.
CallInitStream(t) ==
    /\ t \in Handlers
    /\ pc[t] = "idle"
    /\ inits < MaxInits
    /\ inits' = inits + 1
    /\ InitStream_Lock(t, InitArgs(inits)[1], InitArgs(inits)[2], "idle")
    /\ UNCHANGED <<nextSeq, parseVars, signalVars, bridgeVars>>

CallWriteVideoPacket(t) ==
    /\ pc[t] = "idle"
    /\ nextSeq < MaxPackets
    /\ nextSeq' = nextSeq + 1
    /\ \E p \in Payloads :
          WriteVideoPacket_Enter(t, [seq |-> nextSeq', payload |-> p,
                                     src |-> 0], "idle")
    /\ UNCHANGED <<inits, parseVars, signalVars, bridgeVars>>

CallWriteAudioPacket(t) ==
    /\ t \in Clients
    /\ pc[t] = "idle"
    /\ nextSeq < MaxPackets
    /\ nextSeq' = nextSeq + 1
    /\ WriteAudioPacket_RLock(t, [seq |-> nextSeq', payload |-> OPUS,
                                  src |-> 0], "idle")
    /\ UNCHANGED <<inits, parseVars, signalVars, bridgeVars>>

CallDescribe(t) ==
    /\ t \in Clients
    /\ pc[t] = "idle"
    /\ \E m \in {"describe", "setup"} : OnDescribe_RLock(t, m)
    /\ UNCHANGED <<nextSeq, inits, parseVars, signalVars, bridgeVars>>

CallPlay(t) ==
    /\ t \in Clients
    /\ pc[t] = "idle"
    /\ \E m \in {"play", "pause", "record"} : OnPlay(t, m)
    /\ UNCHANGED <<nextSeq, inits, parseVars, signalVars, bridgeVars>>

CallClose(t) ==
    /\ t \in Clients
    /\ pc[t] = "idle"
    /\ Close_Lock(t)
    /\ UNCHANGED <<nextSeq, inits, parseVars, signalVars, bridgeVars>>

Init ==
    InitParams /\ InitGateway /\ InitTasks /\ InitParseIdle /\ InitReceiver
    /\ InitSignaling

Next ==
    \E t \in Tasks :
        \/ CallInitStream(t)
        \/ CallWriteVideoPacket(t)
        \/ CallWriteAudioPacket(t)
        \/ CallDescribe(t)
        \/ CallPlay(t)
        \/ CallClose(t)
        \/ InitStream_Unlock(t)
        \/ WriteVideoPacket_Unlock1(t)
        \/ WriteVideoPacket_Count(t)
        \/ WriteVideoPacket_Unlock2(t)
        \/ WriteVideoPacket_Write(t)
        \/ WriteAudioPacket_RUnlock(t)
        \/ WriteAudioPacket_Write(t)
        \/ OnDescribe_RUnlock(t)
        \/ Close_Unlock(t)

Spec == Init /\ [][Next]_vars

\* ----------------------------------------- receiver, wiring and gateway
\* HandleOffer up to NewPeerConnection (signaling.go:204-246), which may
\* fail.
HandleOffer_New(t) ==
    /\ t \in OfferTasks
    /\ pc[t] = "idle"
    /\ offers < MaxOffers
    /\ offers' = offers + 1
    /\ \E ok \in BOOLEAN :
          IF ok
          THEN /\ nextPC' = nextPC + 1
               /\ pc' = [pc EXCEPT ![t] = "ho_swap"]
               /\ loc' = [loc EXCEPT ![t] = [NoLoc EXCEPT !.src = nextPC']]
               /\ lastRet' = NoRet
          ELSE /\ lastRet' = [op |-> "HandleOffer", val |-> "err",
                              stream |-> 0]
               /\ UNCHANGED <<nextPC, pc, loc>>
    /\ UNCHANGED <<mu, rreaders, gwVars, libVars, forwarded, dropped, panicked,
                   nextSeq, inits, parseVars, signalVars, peerConnection, pcClosed,
                   negotiated, closureVars, inflight, initBy, tlog>>

\* A swap that leaves the installed connection open.
CloseOld_Never(cur, closed) == closed

\* signaling.go:250-252: the installed connection, if any, is closed.
CloseOld(cur, closed) == IF cur # 0 THEN closed \cup {cur} ELSE closed

\* signaling.go:248-254: under w.mu the installed connection is closed and
\* the new one installed.
HandleOffer_Swap(t) ==
    /\ pc[t] = "ho_swap"
    /\ pcClosed' = CloseOld(peerConnection, pcClosed)
    /\ peerConnection' = loc[t].src
    /\ pc' = [pc EXCEPT ![t] = "ho_sdp"]
    /\ lastRet' = NoRet
    /\ UNCHANGED <<mu, rreaders, gwVars, libVars, forwarded, dropped, panicked,
                   loc, nextSeq, inits, parseVars, signalVars, nextPC, negotiated, offers,
                   closureVars, inflight, initBy, tlog>>

\* signaling.go:257-340: the callbacks are registered, then
\* SetRemoteDescription, CreateAnswer and SetLocalDescription, each of which
\* may fail; the answer is returned when all succeed.
HandleOffer_Answer(t) ==
    /\ pc[t] = "ho_sdp"
    /\ \E ok \in BOOLEAN :
          IF ok
          THEN /\ negotiated' = negotiated \cup {loc[t].src}
               /\ Return(t, "HandleOffer", "answer", 0)
          ELSE /\ UNCHANGED negotiated
               /\ Return(t, "HandleOffer", "err", 0)
    /\ UNCHANGED <<mu, rreaders, gwVars, libVars, forwarded, dropped, panicked,
                   nextSeq, inits, parseVars, signalVars, peerConnection, pcClosed, nextPC,
                   offers, closureVars, inflight, initBy, tlog>>

\* The OnTrack callback of a connection (signaling.go:257-272) runs for a
\* track of a negotiated, open connection and calls main's track handler,
\* here up to the call of InitStream (main.go:70-90).
OnTrack(t) ==
    /\ t \in VideoTracks \cup AudioTracks
    /\ pc[t] = "wait"
    /\ PeerOf(t) \in negotiated \ pcClosed
    /\ trackMu = 0
    /\ trackMu' = t
    /\ IF t \in VideoTracks
       THEN /\ videoPayloadType' = VideoPT
            /\ hasVideo' = TRUE
            /\ hasAudio' = hasAudio
            /\ audioPayloadType' = IF hasAudio THEN audioPayloadType
                                   ELSE DefaultAudioPT
            /\ Log(t, Ev("track", VideoPT,
                          IF pc[t + MaxOffers] = "wait" THEN 0 ELSE 1))
       ELSE /\ \E p \in AudioPTs :
                  /\ audioPayloadType' = p
                  /\ Log(t, Ev("track", p, 0))
            /\ hasAudio' = TRUE
            /\ UNCHANGED <<videoPayloadType, hasVideo>>
    /\ pc' = [pc EXCEPT ![t] = IF hasVideo' THEN "th_init" ELSE "th_unlock"]
    /\ lastRet' = NoRet
    /\ UNCHANGED <<mu, rreaders, gwVars, libVars, forwarded, dropped, panicked,
                   loc, nextSeq, inits, parseVars, signalVars, receiverVars,
                   inflight, initBy>>

\* main.go:91: rtspServer.InitStream(videoPayloadType, audioPayloadType)
TrackHandler_InitStream(t) ==
    /\ pc[t] = "th_init"
    /\ InitStream_Lock(t, videoPayloadType, audioPayloadType, "th_reset")
    /\ inits' = inits + 1
    /\ initBy' = Append(initBy, PeerOf(t))
    /\ Log(t, Ev("init", videoPayloadType, audioPayloadType))
    /\ UNCHANGED <<nextSeq, parseVars, signalVars, receiverVars, closureVars,
                   inflight>>

\* main.go:92-96: the flags are reset after InitStream, trackMu is released
\* and OnTrack goes on to its read loop (signaling.go:274-281).
TrackHandler_Unlock(t) ==
    /\ pc[t] \in {"th_reset", "th_unlock"}
    /\ trackMu' = 0
    /\ IF pc[t] = "th_reset"
       THEN hasVideo' = FALSE /\ hasAudio' = FALSE
       ELSE UNCHANGED <<hasVideo, hasAudio>>
    /\ pc' = [pc EXCEPT ![t] = "rd"]
    /\ Log(t, Ev("ret", 0, 0))
    /\ lastRet' = NoRet
    /\ UNCHANGED <<mu, rreaders, gwVars, libVars, forwarded, dropped, panicked,
                   loc, nextSeq, inits, parseVars, signalVars, receiverVars,
                   videoPayloadType, audioPayloadType, inflight, initBy>>

\* A loop that goes on reading after an error.
AfterReadError_Retry == "rd"

\* signaling.go:285-288: on an error of ReadRTP the callback returns.
AfterReadError == "done"

\* track.ReadRTP() (signaling.go:284-288): an error once the connection is
\* closed, which ends the loop; a packet otherwise.
ReadRTP(t) ==
    /\ pc[t] = "rd"
    /\ IF PeerOf(t) \in pcClosed
       THEN /\ pc' = [pc EXCEPT ![t] = AfterReadError]
            /\ Log(t, Ev("fail", 0, 0))
            /\ UNCHANGED <<nextSeq, inflight>>
       ELSE /\ nextSeq < MaxPackets
            /\ nextSeq' = nextSeq + 1
            /\ Log(t, Ev("read", nextSeq', 0))
            /\ \E p \in IF t \in VideoTracks THEN TrackPayloads ELSE {OPUS} :
                  inflight' = [inflight EXCEPT
                                 ![t] = [seq |-> nextSeq', payload |-> p]]
            /\ pc' = [pc EXCEPT ![t] = "rd_have"]
    /\ lastRet' = NoRet
    /\ UNCHANGED <<mu, rreaders, gwVars, libVars, forwarded, dropped, panicked,
                   loc, inits, parseVars, signalVars, receiverVars, closureVars,
                   initBy>>

\* rtpHandler(track, packet) (signaling.go:289, main.go:99-110): the packet
\* goes to WriteVideoPacket or WriteAudioPacket by the kind of its track.
RTPHandler(t) ==
    /\ pc[t] = "rd_have"
    /\ LET pkt == [seq |-> inflight[t].seq, payload |-> inflight[t].payload,
                   src |-> PeerOf(t)]
       IN  IF t \in VideoTracks
           THEN WriteVideoPacket_Enter(t, pkt, "rd")
           ELSE WriteAudioPacket_RLock(t, pkt, "rd")
    /\ inflight' = [inflight EXCEPT ![t] = NoPacket]
    /\ Log(t, Ev("pass", inflight[t].seq, 0))
    /\ UNCHANGED <<nextSeq, inits, parseVars, signalVars, receiverVars, closureVars,
                   initBy>>

InitBridge ==
    /\ InitParams
    /\ InitGateway
    /\ InitParseIdle
    /\ InitReceiver
    /\ InitSignaling
    /\ pc = [t \in BridgeTasks |-> IF t = Sig THEN "idle" ELSE "wait"]
    /\ loc = [t \in BridgeTasks |-> NoLoc]
    /\ lastRet = NoRet
    /\ nextSeq = 0
    /\ inits = 0

\* A step of goroutine t of the composed program.
BridgeStep(t) ==
    \/ HandleOffer_New(t)
    \/ HandleOffer_Swap(t)
    \/ HandleOffer_Answer(t)
    \/ OnTrack(t)
    \/ TrackHandler_InitStream(t)
    \/ InitStream_Unlock(t)
    \/ TrackHandler_Unlock(t)
    \/ ReadRTP(t)
    \/ RTPHandler(t)
    \/ WriteVideoPacket_Unlock1(t)
    \/ WriteVideoPacket_Count(t)
    \/ WriteVideoPacket_Unlock2(t)
    \/ WriteVideoPacket_Write(t)
    \/ WriteAudioPacket_RUnlock(t)
    \/ WriteAudioPacket_Write(t)

NextBridge == \E t \in BridgeTasks : BridgeStep(t)

SpecBridge == InitBridge /\ [][NextBridge]_vars


\* ------------------------------------------- the gateway closed by its owner
\* The goroutine of the composition root, which owns the gateway and may
\* call its Close (main.go:48).
Owner == 2 * MaxOffers + 2
TrackTasks == VideoTracks \cup AudioTracks
\* The signaling goroutine, the two track goroutines of the first
\* connection, and the owner.
ShutdownTasks == {Sig, 1, MaxOffers + 1, Owner}

\* rtspServer.Close() is called.
CallGatewayClose ==
    /\ pc[Owner] = "idle"
    /\ ~serverClosed
    /\ Close_Lock(Owner)
    /\ UNCHANGED <<nextSeq, inits, parseVars, signalVars, bridgeVars>>

\* track.ReadRTP() fails: the connection of the track is closed.
ReadRTP_Err(t) == PeerOf(t) \in pcClosed /\ ReadRTP(t)

\* The steps a goroutine takes on its own once it is where it is: all but
\* the arrival of an offer, of a track, of a packet, and the owner's call.
Progress(t) ==
    \/ HandleOffer_Swap(t)
    \/ HandleOffer_Answer(t)
    \/ TrackHandler_InitStream(t)
    \/ InitStream_Unlock(t)
    \/ TrackHandler_Unlock(t)
    \/ ReadRTP_Err(t)
    \/ RTPHandler(t)
    \/ WriteVideoPacket_Unlock1(t)
    \/ WriteVideoPacket_Count(t)
    \/ WriteVideoPacket_Unlock2(t)
    \/ WriteVideoPacket_Write(t)
    \/ WriteAudioPacket_RUnlock(t)
    \/ WriteAudioPacket_Write(t)
    \/ Close_Unlock(t)

InitShutdown ==
    /\ InitParams
    /\ InitGateway
    /\ InitParseIdle
    /\ InitReceiver
    /\ InitSignaling
    /\ pc = [t \in ShutdownTasks |->
                IF t \in TrackTasks THEN "wait" ELSE "idle"]
    /\ loc = [t \in ShutdownTasks |-> NoLoc]
    /\ lastRet = NoRet
    /\ nextSeq = 0
    /\ inits = 0

NextShutdown ==
    \/ \E t \in ShutdownTasks : BridgeStep(t)
    \/ CallGatewayClose
    \/ Close_Unlock(Owner)

\* Every goroutine that can take a step of its own eventually takes it.
SpecShutdown ==
    /\ InitShutdown
    /\ [][NextShutdown]_vars
    /\ WF_vars(\E t \in ShutdownTasks : Progress(t))

\* ------------------------------------------------- the receiver alone
\* WebRTCReceiver.Close (signaling.go:362-370): the installed connection is
\* closed; the reference is kept.
ReceiverClose ==
    /\ pcClosed' = CloseOld(peerConnection, pcClosed)
    /\ lastRet' = [op |-> "ReceiverClose", val |-> "nil", stream |-> 0]
    /\ UNCHANGED <<mu, rreaders, gwVars, libVars, forwarded, dropped, panicked,
                   pc, loc, nextSeq, inits, parseVars, signalVars, peerConnection, nextPC,
                   negotiated, offers, closureVars, inflight, initBy, tlog>>

InitOffer ==
    /\ InitParams
    /\ InitGateway
    /\ InitParseIdle
    /\ InitReceiver
    /\ InitSignaling
    /\ pc = [t \in OfferTasks |-> "idle"]
    /\ loc = [t \in OfferTasks |-> NoLoc]
    /\ lastRet = NoRet
    /\ nextSeq = 0
    /\ inits = 0

\* HandleOffer called from two control connections, and Close.
NextOffer ==
    \/ \E t \in OfferTasks :
          \/ HandleOffer_New(t)
          \/ HandleOffer_Swap(t)
          \/ HandleOffer_Answer(t)
    \/ ReceiverClose

SpecOffer == InitOffer /\ [][NextOffer]_vars

\* --------------------------------------------- extractSPSPPS on its own
\* One payload is handed to extractSPSPPS twice, the loop of parseSTAPA
\* taken one iteration at a time.  The gateway is not initialized; it may
\* hold an SPS or a PPS from an earlier packet.
\* NRI 3, type 24: the header byte 0x78 browsers send
STAPHeader == 3 * 32 + NALUTypeSTAPA
BodyBytes == {0, 1, 2, 103, 104}
UnitSet == {<<103>>, <<104>>, <<1>>, <<103, 9>>, <<104, 9>>}
Tails == {<<>>, <<0>>, <<0, 0>>, <<0, 3, 103>>, <<1, 0, 104>>}
OLD_SPS == <<103, 77>>
OLD_PPS == <<104, 78>>

SeqsUpTo(S, n) == UNION {[1..k -> S] : k \in 0..n}

\* units -> (2-byte big-endian length, unit)*
RECURSIVE Encode(_)
Encode(units) ==
    IF units = <<>>
    THEN <<>>
    ELSE <<Len(Head(units)) \div 256, Len(Head(units)) % 256>>
             \o Head(units) \o Encode(Tail(units))

Inputs ==
    {<<>>, <<103>>, <<103, 5>>, <<104, 5>>, <<101, 5>>, <<7, 1>>, <<24>>}
    \cup {<<STAPHeader>> \o b : b \in SeqsUpTo(BodyBytes, MaxLen)}
    \cup {<<STAPHeader>> \o Encode(u) \o tl :
              u \in SeqsUpTo(UnitSet, MaxUnits), tl \in Tails}

InitParse ==
    /\ InitGateway
    /\ InitTasks
    /\ InitReceiver
    /\ InitSignaling
    /\ input \in Inputs
    /\ spsReceived \in BOOLEAN
    /\ ppsReceived \in BOOLEAN
    /\ sps = IF spsReceived THEN OLD_SPS ELSE <<>>
    /\ pps = IF ppsReceived THEN OLD_PPS ELSE <<>>
    /\ pre = Params
    /\ mid = NoParams
    /\ buf = <<>>
    /\ ppc = "start"
    /\ iters = 0
    /\ runs = 0

SetParams(P) ==
    /\ sps' = P.sps
    /\ pps' = P.pps
    /\ spsReceived' = P.spsReceived
    /\ ppsReceived' = P.ppsReceived
    /\ panicked' = P.panicked

ParseFrame ==
    UNCHANGED <<mu, rreaders, stream, videoMedia, audioMedia, initialized,
                videoPayload, audioPayload, videoPacketCnt, libVars, forwarded,
                dropped, taskVars, input, pre, bridgeVars, signalVars>>

\* The call ends: the first call's result is kept for comparison.
Finish(P) ==
    /\ ppc' = "done"
    /\ runs' = runs + 1
    /\ mid' = IF runs = 0 THEN P ELSE mid

\* extractSPSPPS is entered (rtsp.go:141-167): a STAP-A goes to parseSTAPA
\* with the header byte cut off, anything else is handled at once.
ExtractStart ==
    /\ ppc = "start"
    /\ iters' = 0
    /\ IF IsSTAPA(input)
       THEN /\ UNCHANGED <<paramVars, panicked>>
            /\ buf' = Slice(input, 1, Len(input))
            /\ ppc' = "loop"
            /\ UNCHANGED <<runs, mid>>
       ELSE /\ SetParams(extractSingle(Params, input))
            /\ buf' = <<>>
            /\ Finish(extractSingle(Params, input))
    /\ ParseFrame

\* One iteration of parseSTAPA's loop (rtsp.go:172-202).
ParseIter ==
    /\ ppc = "loop"
    /\ Len(buf) >= 2
    /\ LET r == parseSTAPAIter(Params, buf)
       IN  /\ SetParams(r.P)
           /\ buf' = r.payload
           /\ iters' = iters + 1
           /\ IF r.brk
              THEN Finish(r.P)
              ELSE UNCHANGED <<ppc, runs, mid>>
    /\ ParseFrame

\* The loop condition fails (rtsp.go:172): parseSTAPA returns.
ParseExit ==
    /\ ppc = "loop"
    /\ Len(buf) < 2
    /\ Finish(Params)
    /\ UNCHANGED <<paramVars, panicked, buf, iters>>
    /\ ParseFrame

\* The same payload arrives again.
Reparse ==
    /\ ppc = "done"
    /\ runs < 2
    /\ ppc' = "start"
    /\ UNCHANGED <<paramVars, panicked, buf, iters, runs, mid>>
    /\ ParseFrame

NextParse == ExtractStart \/ ParseIter \/ ParseExit \/ Reparse

SpecParse == InitParse /\ [][NextParse]_vars


\* ------------------------------------------------- aggregation packets
\* What RFC 6184 says a STAP-A body is, for stating what the parser should
\* find: the bytes after the header are (2-byte length, unit)*.
AggBody == IF Len(input) >= 1 THEN SubSeq(input, 2, Len(input)) ELSE <<>>
DeclaredLen(b) == b[1] * 256 + b[2]
FirstFits(b) ==
    Len(b) >= 2 /\ DeclaredLen(b) >= 1 /\ DeclaredLen(b) <= Len(b) - 2
AfterFirst(b) == SubSeq(b, 3 + DeclaredLen(b), Len(b))

RECURSIVE WellFormed(_)
WellFormed(b) == b = <<>> \/ (FirstFits(b) /\ WellFormed(AfterFirst(b)))

\* The units of the longest well-formed prefix.
RECURSIVE UnitsOf(_)
UnitsOf(b) ==
    IF FirstFits(b)
    THEN <<SubSeq(b, 3, 2 + DeclaredLen(b))>> \o UnitsOf(AfterFirst(b))
    ELSE <<>>

\* Walking the units, a declared length is met that is zero or too large.
RECURSIVE MeetsBadLength(_)
MeetsBadLength(b) ==
    /\ Len(b) >= 2
    /\ \/ ~FirstFits(b)
       \/ MeetsBadLength(AfterFirst(b))

OfType(units, ty) == {i \in 1..Len(units) : units[i][1] % 32 = ty}
FirstOfType(units, ty) ==
    LET I == OfType(units, ty)
    IN  IF I = {} THEN <<>>
        ELSE units[CHOOSE i \in I : \A j \in I : i <= j]

\* The parameters after the units U were offered to a gateway holding P.
Expected(P, U) ==
    [sps |-> IF P.spsReceived \/ OfType(U, NALUTypeSPS) = {}
             THEN P.sps ELSE FirstOfType(U, NALUTypeSPS),
     pps |-> IF P.ppsReceived \/ OfType(U, NALUTypePPS) = {}
             THEN P.pps ELSE FirstOfType(U, NALUTypePPS),
     spsReceived |-> P.spsReceived \/ OfType(U, NALUTypeSPS) # {},
     ppsReceived |-> P.ppsReceived \/ OfType(U, NALUTypePPS) # {},
     panicked |-> FALSE]

\* C8: for a well-formed aggregation packet the parser captures exactly the
\* first SPS unit and the first PPS unit it contains (for a type the gateway
\* does not hold yet) and nothing from other units; a second pass over the
\* same bytes changes neither blob nor flag.
C8_ParseExact ==
    (ppc = "done" /\ IsSTAPA(input) /\ WellFormed(AggBody)) =>
        /\ mid = Expected(pre, UnitsOf(AggBody))
        /\ Params = mid

\* C8 witness: a packet with a slice, two SPS units and a PPS unit has been
\* parsed twice by a gateway that held nothing; the first SPS is held.
C8_Witness ==
    /\ ppc = "done"
    /\ runs = 2
    /\ pre = NoParams
    /\ \E u \in UnitSet :
          input = <<STAPHeader>> \o Encode(<< <<103, 9>>, u, <<103>> >>)
    /\ sps = <<103, 9>>

\* The blob b is one whole length-prefixed unit of the payload (or the whole
\* payload of a single-unit packet).
WholeUnit(b) ==
    IF IsSTAPA(input)
    THEN \E o \in 1..Len(AggBody) :
            LET r == SubSeq(AggBody, o, Len(AggBody))
            IN  FirstFits(r) /\ b = SubSeq(r, 3, 2 + DeclaredLen(r))
    ELSE b = input

\* C9: for any payload the parser never reads outside it (no panic), its
\* loop consumes at least three bytes per completed iteration, so it ends
\* within len/3 iterations, and a blob it captures is a whole unit.
C9_ParseSafe ==
    /\ panicked = FALSE
    /\ ppc \in {"loop", "done"} => Len(buf) + 3 * iters <= Len(input)
    /\ sps # pre.sps => WholeUnit(sps)
    /\ pps # pre.pps => WholeUnit(pps)

\* C9 witness: a packet whose second unit declares more bytes than remain
\* was walked to the end; only the first unit was captured.
C9_Witness ==
    /\ ppc = "done"
    /\ input = <<STAPHeader>> \o Encode(<< <<103>> >>) \o <<1, 0, 104>>
    /\ pre = NoParams
    /\ sps = <<103>>
    /\ ~ppsReceived
    /\ iters = 2

\* C10 as stated: a packet in which the parser meets a bad declared length
\* leaves both blobs and both flags as they were.
C10_Skipped ==
    (ppc = "done" /\ IsSTAPA(input) /\ MeetsBadLength(AggBody)) =>
        (sps = pre.sps /\ pps = pre.pps /\ spsReceived = pre.spsReceived
         /\ ppsReceived = pre.ppsReceived)

\* C10 amended: the unit with the bad length and everything after it are
\* skipped, the units before it are captured as in a well-formed packet, and
\* the parser reports no error.
C10_SkippedFromBadUnit ==
    (ppc = "done" /\ IsSTAPA(input) /\ MeetsBadLength(AggBody)) =>
        /\ mid = Expected(pre, UnitsOf(AggBody))
        /\ Params = mid
        /\ (~FirstFits(AggBody) => Params = pre)

\* C10 witness: SPS unit, then a zero length and a PPS that is not reached.
C10_Witness ==
    /\ ppc = "done"
    /\ input = <<STAPHeader>> \o Encode(<< <<103, 9>> >>) \o <<0, 0>>
    /\ pre = NoParams
    /\ sps = <<103, 9>>
    /\ spsReceived


\* ------------------------------------------------------------ the gateway
\* The gateway is Initialized: a session is published.
Published == initialized /\ stream # 0

ForwardedSeqs == {e.seq : e \in forwarded}

\* C1: a step that hands a packet to the downstream stream is taken while
\* the gateway is Initialized, and the packet goes to the published stream.
C1_ForwardOnlyWhenInitialized ==
    [][forwarded' # forwarded =>
          /\ Published
          /\ \A e \in forwarded' \ forwarded : e.stream = stream]_vars

\* C1 witness: InitStream reset the gateway between a writer's copy of the
\* handles and its write, after packets had been forwarded.
C1_Witness ==
    /\ \E t \in Tasks : pc[t] = "wv_write" /\ loc[t].stream \in streamClosed
    /\ ~initialized
    /\ stream = 0
    /\ forwarded # {}

\* C2 as stated: the session is unpublished while a blob is missing and
\* published from the moment the PPS packet has completed the pair.
C2_PublishedWithPPS ==
    /\ initialized => spsReceived /\ ppsReceived
    /\ (spsReceived /\ ppsReceived) => initialized

\* C2 amended: the session is not published before both blobs are held; the
\* step that completes the pair creates the stream, and publishes it exactly
\* when stream.Initialize succeeds; a packet written to the published stream
\* is forwarded to its video medium; a packet the gateway returned on
\* without forwarding is never forwarded later.
C2_PublishedAfterPPS ==
    /\ [](initialized => spsReceived /\ ppsReceived)
    /\ [](dropped \cap ForwardedSeqs = {})
    /\ [][ (~(spsReceived /\ ppsReceived) /\ spsReceived' /\ ppsReceived') =>
              /\ nextStream' = nextStream + 1
              /\ stream' = nextStream'
              /\ initialized' = (stream' \in streamInit')
              /\ streamDesc'[stream'].medias[1].sps = sps'
              /\ streamDesc'[stream'].medias[1].pps = pps' ]_vars
    /\ [][ \A t \in Tasks :
              (pc[t] = "wv_write" /\ pc'[t] # "wv_write"
               /\ loc[t].stream \notin streamClosed) =>
                 \E e \in forwarded' :
                    /\ e.seq = loc[t].seq
                    /\ e.kind = "video"
                    /\ e.stream = loc[t].stream
                    /\ e.media = videoMedia ]_vars

\* C2 witness: InitStream(96,111), SPS (returned on, nothing published), PPS
\* (published and forwarded), then a third packet, forwarded to the video
\* medium of the stream published by the PPS.
C2_Witness ==
    /\ initialized
    /\ inits = 1
    /\ videoPayload = VideoPT
    /\ audioPayload = DefaultAudioPT
    /\ sps = SPS_A
    /\ pps = PPS_A
    /\ stream = 1
    /\ dropped = {1}
    /\ streamInit = {1}
    /\ nextStream = 1
    /\ forwarded = {[stream |-> 1, kind |-> "video", media |-> 1, seq |-> n,
                     src |-> 0] : n \in {2, 3}}


\* C3: InitStream on an Initialized gateway closes the published stream,
\* drops the handle, clears the flag, both blobs, both received flags and
\* the packet counter and stores the new payload types; while a blob is
\* missing the gateway is not Initialized and describe and setup answer
\* not-found.
C3_ResetOnInitStream ==
    /\ [][ \A t \in Tasks :
              (pc[t] = "idle" /\ pc'[t] = "is_unlock" /\ initialized) =>
                 /\ stream \in streamClosed'
                 /\ stream' = 0
                 /\ ~initialized'
                 /\ sps' = <<>> /\ pps' = <<>>
                 /\ ~spsReceived' /\ ~ppsReceived'
                 /\ videoPacketCnt' = 0
                 /\ videoPayload' = InitArgs(inits)[1]
                 /\ audioPayload' = InitArgs(inits)[2] ]_vars
    /\ []((~spsReceived \/ ~ppsReceived) =>
            /\ ~initialized
            /\ lastRet.op \in {"describe", "setup"} => lastRet.val = "404")

\* C3 witness: the second InitStream has just reset a published gateway and
\* stored the second pair of payload types.
C3_Witness ==
    /\ \E t \in Tasks : pc[t] = "is_unlock"
    /\ inits = 2
    /\ streamInit # {}
    /\ streamInit \subseteq streamClosed
    /\ stream = 0
    /\ videoPayload = InitArgs(1)[1]
    /\ audioPayload = InitArgs(1)[2]
    /\ ~serverClosed

\* The connection whose video track opened the cycle in which stream s was
\* created.
CycleOwner(s) ==
    IF streamCycle[s] \in DOMAIN initBy THEN initBy[streamCycle[s]] ELSE 0

\* An InitStream call reset the gateway before stream s was created: an
\* earlier stream was published and has been closed.
AfterReset(s) == \E o \in streamInit \cap streamClosed : o < s

\* C4: once InitStream has reset an Initialized gateway, a packet read from a
\* track of a connection older than the one that opened the new cycle is
\* never written to the session the new cycle publishes.
C4_NoOldPacketInNewCycle ==
    \A e \in forwarded :
        AfterReset(e.stream) => e.src >= CycleOwner(e.stream)

FullDesc(d) ==
    /\ Len(d.medias) = 2
    /\ d.medias[1].type = "video"
    /\ d.medias[2].type = "audio"
    /\ d.medias[1].sps = sps /\ sps # <<>>
    /\ d.medias[1].pps = pps /\ pps # <<>>

\* C5: a describe or setup request is answered not-found without a stream,
\* or OK with a stream whose description has the video and the audio medium
\* and carries both captured blobs.
C5_DescribeAllOrNothing ==
    lastRet.op \in {"describe", "setup"} =>
        \/ lastRet.val = "404" /\ lastRet.stream = 0
        \/ /\ lastRet.val = "200"
           /\ lastRet.stream \in StreamIds
           /\ FullDesc(streamDesc[lastRet.stream])

\* C5 witness: describe is answered OK while a video write that began
\* before is still on its way.
C5_Witness ==
    /\ lastRet.op = "describe"
    /\ lastRet.val = "200"
    /\ pc[1] \in {"wv_lock2", "wv_write"}

Methods == {"describe", "setup", "play", "pause", "record"}

\* C6 as stated: every request is answered not-found exactly while no
\* session is published.
C6_AllRequestsFollowPublication ==
    lastRet.op \in Methods => (lastRet.val = "404" <=> ~Published)

\* C6 amended: describe and setup are answered not-found while the gateway
\* is not Initialized and OK with the published stream while it is; play,
\* pause and record are answered OK in every state.
C6_DescribeSetupFollowPublication ==
    /\ lastRet.op \in {"describe", "setup"} =>
          IF Published
          THEN lastRet.val = "200" /\ lastRet.stream = stream
          ELSE lastRet.val = "404" /\ lastRet.stream = 0
    /\ lastRet.op \in {"play", "pause", "record"} =>
          lastRet.val = "200" /\ lastRet.stream = 0

\* C6 witness: play was answered OK by a gateway that holds one blob only.
C6_Witness ==
    /\ lastRet.op = "play"
    /\ lastRet.val = "200"
    /\ spsReceived
    /\ ~ppsReceived
    /\ ~Published

\* C7: a blob that is held changes only by the reset of an Initialized
\* gateway; no video packet replaces it.
C7_CapturedOnce ==
    [][ /\ spsReceived =>
             \/ sps' = sps /\ spsReceived'
             \/ initialized /\ ~initialized' /\ sps' = <<>> /\ ~spsReceived'
        /\ ppsReceived =>
             \/ pps' = pps /\ ppsReceived'
             \/ initialized /\ ~initialized' /\ pps' = <<>> /\ ~ppsReceived'
      ]_vars

\* C7 witness: a PPS packet, then an aggregation packet with another PPS:
\* the first PPS is the one published.
C7_Witness ==
    /\ pps = PPS_A
    /\ sps = <<103, 3>>
    /\ initialized
    /\ dropped = {1}


\* C11: a WriteAudioPacket call that finds no session published returns nil
\* and forwards nothing; no step of WriteAudioPacket changes a field of the
\* gateway or a stream object, so it neither captures parameters nor
\* publishes.
C11_AudioLeavesGatewayAlone ==
    [][ \A t \in Tasks :
          /\ (pc[t] = "wa_runlock" /\ pc'[t] # "wa_runlock" /\ ~Published) =>
                /\ lastRet' = [op |-> "WriteAudioPacket", val |-> "nil",
                               stream |-> 0]
                /\ pc'[t] = loc[t].cont
                /\ forwarded' = forwarded
          /\ (/\ pc'[t] # pc[t]
              /\ \/ pc[t] \in {"wa_runlock", "wa_write"}
                 \/ pc'[t] = "wa_runlock") =>
                /\ gwVars' = gwVars
                /\ libVars' = libVars
                /\ mu' = mu
                /\ panicked' = panicked ]_vars

\* C11 witness: an audio packet was returned on by a gateway that holds the
\* SPS only; the SPS is still held and nothing is published.
C11_Witness ==
    /\ lastRet.op = "WriteAudioPacket"
    /\ lastRet.val = "nil"
    /\ spsReceived
    /\ ~ppsReceived
    /\ ~Published
    /\ nextSeq \in dropped
    /\ forwarded = {}


\* Connections created and not closed.
Live == (1..nextPC) \ pcClosed

\* C12 as stated: at every moment at most one connection is created and not
\* yet closed.
C12_AtMostOneLive == Cardinality(Live) <= 1

\* C12 amended: a connection that is created and not closed is the installed
\* one or belongs to a HandleOffer call that has not reached the swap yet;
\* the step that installs a connection closes the one installed before.
C12_OneInstalled ==
    /\ [](\A n \in Live :
            \/ n = peerConnection
            \/ \E t \in OfferTasks : pc[t] = "ho_swap" /\ loc[t].src = n)
    /\ [][ peerConnection' # peerConnection =>
             /\ peerConnection # 0 => peerConnection \in pcClosed'
             /\ peerConnection' \notin pcClosed' ]_vars

\* C12 witness: two HandleOffer calls overlap; the connection of the call
\* that swapped first was closed by the other call's swap while the first
\* call is still negotiating.
C12_Witness ==
    /\ peerConnection # 0
    /\ Live = {peerConnection}
    /\ \E t \in OfferTasks :
          /\ pc[t] = "ho_sdp"
          /\ loc[t].src \in pcClosed
          /\ loc[t].src # peerConnection


\* Streams whose Initialize succeeded and that were not closed.
OpenSessions == streamInit \ streamClosed

\* C13: at most one session is published at any moment, it is the one the
\* gateway holds, and a session is published only by a step taken while
\* none is published.
C13_AtMostOneSession ==
    /\ [](Cardinality(OpenSessions) <= 1)
    /\ [](OpenSessions \subseteq {stream})
    /\ [](OpenSessions # {} => initialized)
    /\ [][streamInit' # streamInit => OpenSessions = {}]_vars

\* C13 witness: a second cycle has published its session after InitStream
\* closed the first.
C13_Witness ==
    /\ streamInit = {1, 2}
    /\ streamClosed = {1}
    /\ stream = 2
    /\ initialized
    /\ inits = 2


C15_LoopsExitAfterClose ==
    \A t \in TrackTasks \cap ShutdownTasks :
        (pc[Owner] = "cl_unlock" /\ pc[t] \notin {"wait", "done"})
            ~> (pc[t] = "done")

\* The conn.Write calls made in reply to message id.
Replies(id) == {i \in 1..Len(wlog) : wlog[i].re = id}

\* C16: an offer whose handler succeeded gets exactly one reply, an answer
\* with the returned SDP written to the connection the offer came on; an
\* offer whose handler failed gets no reply at all, and the loop is back at
\* conn.Read.
C16_OneAnswerOrNone ==
    \A id \in MsgIds :
        LET o == olog[id]
        IN  /\ o.res = "fail" =>
                  /\ Replies(id) = {}
                  /\ wsmsg[o.conn].id = id => wspc[o.conn] = "read"
            /\ o.res = "ok" =>
                  IF wsmsg[o.conn].id = id /\ wspc[o.conn] = "reply"
                  THEN Replies(id) = {}
                  ELSE /\ Cardinality(Replies(id)) = 1
                       /\ \A i \in Replies(id) :
                             /\ wlog[i].type = "answer"
                             /\ wlog[i].sdp = o.sdp
                             /\ wlog[i].conn = o.conn

\* C16 witness: on one connection an offer failed without a reply, the loop
\* went on, and a later offer was answered.
C16_Witness ==
    \E a, b \in MsgIds :
        /\ a < b
        /\ olog[a].res = "fail"
        /\ olog[b].res = "ok"
        /\ olog[a].conn = olog[b].conn
        /\ Replies(a) = {}
        /\ \E i \in Replies(b) : wlog[i].ok /\ wlog[i].sdp = olog[b].sdp

\* The conn.Write calls that carry candidate k.
Sent(k) == {i \in 1..Len(wlog) : wlog[i].type = "candidate" /\ wlog[i].cand = k}

C18_ExitAndClear ==
    /\ [][\A c \in ConnIds :
             /\ wspc[c] \in {"defer", "close", "done"} =>
                   /\ wspc'[c] \in {"defer", "close", "done"}
                   /\ wsmsg'[c] = wsmsg[c]
             /\ (wspc[c] = "defer" /\ wspc'[c] # "defer") =>
                   /\ wspc'[c] = "close"
                   /\ conn' = 0]_vars
    /\ \A c \in ConnIds : (wspc[c] = "defer") ~> (wspc[c] = "done")

\* C18 witness: a call whose read failed has ended while the other
\* connection is still served, and nothing is bound.
C18_Witness ==
    \E c, d \in ConnIds :
        /\ wspc[c] = "done"
        /\ c \notin connOpen
        /\ wsmsg[c] = NoMsg
        /\ nextMsg > 0
        /\ wspc[d] = "read"
        /\ d \in connOpen
        /\ conn = 0

\* The positions of tlog[t] that hold an event of kind ev.
EventsOf(t, ev) == {i \in 1..Len(tlog[t]) : tlog[t][i].ev = ev}

\* C19: the goroutine of a track first reports the track and lets the track
\* handler return; then every packet it reads is handed to the RTP handler
\* before it reads again; a failed read is the last thing it does.
C19_HandlerThenPacketsInOrder ==
    \A t \in TrackTasks :
        LET L == tlog[t]
        IN  \A i \in 1..Len(L) :
               /\ i = 1 <=> L[i].ev = "track"
               /\ L[i].ev \in {"read", "fail"} =>
                     /\ \E j \in 1..(i - 1) : L[j].ev = "ret"
                     /\ L[i - 1].ev \in {"ret", "pass"}
               /\ L[i].ev = "pass" => L[i - 1] = Ev("read", L[i].x, 0)
               /\ (L[i].ev = "read" /\ i < Len(L)) =>
                     L[i + 1] = Ev("pass", L[i].x, 0)
               /\ L[i].ev = "fail" => i = Len(L) /\ pc[t] = "done"

\* C19 witness: the loop of a track handed on two packets and then ended on
\* a failed read.
C19_Witness ==
    \E t \in TrackTasks :
        /\ Cardinality(EventsOf(t, "pass")) = 2
        /\ EventsOf(t, "fail") # {}
        /\ pc[t] = "done"

\* C20: a video track's arrival makes one InitStream call and an audio
\* track's arrival none; the audio payload type passed is that of the audio
\* track of the same connection if it arrived before the video track, and
\* the fallback otherwise.
C20_InitStreamArgs ==
    /\ \A t \in AudioTracks : EventsOf(t, "init") = {}
    /\ \A t \in VideoTracks :
          /\ Cardinality(EventsOf(t, "init")) <= 1
          /\ EventsOf(t, "ret") # {} => EventsOf(t, "init") = {2}
          /\ \A i \in EventsOf(t, "init") :
                /\ tlog[t][i].x = tlog[t][1].x
                /\ tlog[t][i].y = IF tlog[t][1].y = 1
                                  THEN tlog[t + MaxOffers][1].x
                                  ELSE DefaultAudioPT

\* C21: a task that is at the downstream write of WriteVideoPacket or
\* WriteAudioPacket holds the gateway lock neither for writing nor for
\* reading, and writes with the handles it copied under the lock.
C21_NoLockAcrossWrite ==
    \A t \in Tasks :
        pc[t] \in {"wv_write", "wa_write"} =>
            /\ mu # t
            /\ t \notin rreaders
            /\ loc[t].initialized
            /\ loc[t].stream # 0
            /\ loc[t].media # 0

\* C21 witness: one task is at its downstream write while another task
\* holds the lock.
C21_Witness ==
    \E t, u \in Tasks :
        /\ t # u
        /\ pc[t] \in {"wv_write", "wa_write"}
        /\ mu = u

\* C22: while the initialized flag is set, the stream and both media are
\* there, both blobs are held, and the description of the stream carries
\* the held SPS and PPS and the payload types stored by the most recent
\* InitStream call.
C22_InitializedMeansComplete ==
    initialized =>
        /\ stream # 0
        /\ videoMedia # 0
        /\ audioMedia # 0
        /\ spsReceived
        /\ ppsReceived
        /\ LET m == streamDesc[stream].medias
           IN  /\ Len(m) = 2
               /\ m[1].type = "video"
               /\ m[1].sps = sps
               /\ m[1].pps = pps
               /\ m[1].pt = videoPayload
               /\ m[2].type = "audio"
               /\ m[2].pt = audioPayload
               /\ inits > 0 =>
                     <<m[1].pt, m[2].pt>> = InitArgs(inits - 1)

\* C22 witness: a session published after the second InitStream call,
\* already written to.
C22_Witness ==
    /\ initialized
    /\ inits = 2
    /\ streamDesc[stream].medias[1].pt = InitArgs(1)[1]
    /\ sps # <<>>
    /\ pps # <<>>
    /\ \E e \in forwarded : e.stream = stream

\* C23: an InitStream call on a gateway that is not Initialized stores the
\* two payload types and leaves the blobs, the received flags, the stream,
\* the media and the packet counter as they are; a blob held when a stream
\* is created is the one put into its description.
C23_InitStreamKeepsBlobs ==
    /\ [][ \A t \in Tasks :
              (pc[t] = "idle" /\ pc'[t] = "is_unlock" /\ ~initialized) =>
                 /\ videoPayload' = InitArgs(inits)[1]
                 /\ audioPayload' = InitArgs(inits)[2]
                 /\ <<sps, pps, spsReceived, ppsReceived>>' =
                       <<sps, pps, spsReceived, ppsReceived>>
                 /\ <<stream, videoMedia, audioMedia, videoPacketCnt>>' =
                       <<stream, videoMedia, audioMedia, videoPacketCnt>>
                 /\ ~initialized'
                 /\ libVars' = libVars
                 /\ forwarded' = forwarded ]_vars
    /\ [][ nextStream' # nextStream =>
              /\ spsReceived => streamDesc'[nextStream'].medias[1].sps = sps
              /\ ppsReceived => streamDesc'[nextStream'].medias[1].pps = pps
              /\ streamDesc'[nextStream'].medias[1].pt = videoPayload
              /\ streamDesc'[nextStream'].medias[2].pt = audioPayload ]_vars

\* C23 witness: the second InitStream call has just run on a gateway that
\* holds an SPS and no PPS: the SPS is still held and the second pair of
\* payload types is stored.
C23_Witness ==
    /\ \E t \in Tasks : pc[t] = "is_unlock"
    /\ inits = 2
    /\ streamInit = {}
    /\ spsReceived
    /\ sps # <<>>
    /\ ~ppsReceived
    /\ ~initialized
    /\ videoPayload = InitArgs(1)[1]

\* The HandleWebSocket calls that have bound their connection and whose
\* read loop has not ended.
Running == {c \in ConnIds : wspc[c] \in {"read", "offer", "reply", "cand"}}

\* C24: while the read loop of some control connection is running a
\* connection is bound, it is one whose loop has not ended, and a
\* SendICECandidate call that copies the field gets a connection.
C24_BoundWhileRunning ==
    /\ [](Running # {} => conn # 0 /\ wspc[conn] \notin {"close", "done"})
    /\ [][(Running # {} /\ nextCand' # nextCand) => sendConn' \in Running]_vars

\* C25: when a HandleOffer call returns an error, the receiver is as it was
\* before the call: a call that created no connection changed nothing, and
\* the connection a failing call created is neither installed nor live.
C25_FailedOfferLeavesNothing ==
    [][ \A t \in OfferTasks :
           /\ (pc[t] = "idle" /\ offers' # offers /\ pc'[t] = "idle") =>
                 /\ lastRet'.val = "err"
                 /\ <<peerConnection, pcClosed, nextPC>>' =
                       <<peerConnection, pcClosed, nextPC>>
           /\ (pc[t] = "ho_sdp" /\ pc'[t] = "idle" /\ lastRet'.val = "err") =>
                 /\ peerConnection' # loc[t].src
                 /\ loc[t].src \in pcClosed' ]_vars

\* Both blobs are held and no session is published: the state a failed
\* stream.Initialize leaves behind.
PublishFailed == spsReceived /\ ppsReceived /\ ~initialized

\* C26: after a failed publication the gateway is not Initialized, describe
\* and setup answer not-found, no session is open, nothing is forwarded and
\* both blobs stay as captured; every later non-empty video packet creates a
\* stream and attempts to publish it; the attempt that succeeds makes the
\* gateway Initialized with the blobs captured before, which the published
\* description carries.
C26_RetryUntilPublished ==
    /\ [](PublishFailed =>
            /\ sps # <<>> /\ pps # <<>>
            /\ OpenSessions = {}
            /\ lastRet.op \in {"describe", "setup"} => lastRet.val = "404")
    /\ [][ PublishFailed =>
              /\ sps' = sps /\ pps' = pps
              /\ spsReceived' /\ ppsReceived'
              /\ forwarded' = forwarded ]_vars
    /\ [][ \A t \in Tasks :
              (PublishFailed /\ pc[t] = "idle" /\ pc'[t] = "wv_unlock1") =>
                 /\ nextStream' = nextStream + 1
                 /\ stream' = nextStream'
                 /\ initialized' = (stream' \in streamInit')
                 /\ streamDesc'[stream'].medias[1].sps = sps
                 /\ streamDesc'[stream'].medias[1].pps = pps ]_vars
    /\ [][ (PublishFailed /\ initialized') =>
              \E t \in Tasks : pc[t] = "idle" /\ pc'[t] = "wv_unlock1" ]_vars

\* C26 witness: the SPS, then the PPS whose publication failed, then a frame
\* whose publication succeeded: the second stream is published with the
\* blobs of the first two packets and the frame is forwarded to it.
C26_Witness ==
    /\ initialized
    /\ nextStream = 2
    /\ streamInit = {2}
    /\ stream = 2
    /\ sps = SPS_A
    /\ pps = PPS_A
    /\ streamDesc[2].medias[1].sps = SPS_A
    /\ streamDesc[2].medias[1].pps = PPS_A
    /\ dropped = {1, 2}
    /\ \E e \in forwarded : e.seq = 3 /\ e.stream = 2 /\ e.kind = "video"

====
